---- MODULE Spec2Model ----
(***************************************************************************)
(* Model of the AID universes of aci-integration-module:                   *)
(*   - HashTreeStoredUniverse._reconcile and tenant deletion voting        *)
(*     (aim/agent/aid/universes/base_universe.py),                         *)
(*   - the per-object failure ledger of HashTreeStoredUniverse             *)
(*     (creation_succeeded / creation_failed / deletion_failed),           *)
(*   - AimDbUniverse.get_optimized_state, get_resources and                *)
(*     push_resources (aim/agent/aid/universes/aim_universe.py).           *)
(* The hash tree library (aim.common.hashtree.structured_tree), the tree   *)
(* store (aim.db.tree_model) and the AIM manager are not part of the       *)
(* modelled sources; they are modelled from their documented contract.     *)
(***************************************************************************)
EXTENDS Integers, Sequences, FiniteSets, TLC

VARIABLES
    state,              \* universe -> (tenant -> tree): what `state` returns
    delete_candidates,  \* tenant -> set of universes voting for its removal
    last,               \* record of the most recent reconcile pass, or NoPass
    failure_log,        \* aim_id -> <<failures, last>>
    sync_status,        \* aim_id -> sync state and message kept by the manager
    now,                \* value returned by time.time()
    max_create_retry,   \* option max_operation_retry
    retry_cooldown,     \* option retry_cooldown
    harakiri,           \* TRUE once utils.perform_harakiri was called
    lastcall,           \* record of the most recent ledger call, or NoCall
    script,             \* number of calls of the escalation scenario done so far
    audit,              \* what the failure reports made so far add up to
    fetch,              \* a get_resources call: keys, store, result; or NoFetch
    push,               \* a push_resources call: buckets, manager calls; or NoPush
    running             \* universe -> where its reconcile pass stands, when
                        \* passes are followed statement by statement

vars == <<state, delete_candidates, last, failure_log, sync_status, now,
          max_create_retry, retry_cooldown, harakiri, lastcall, script,
          audit, fetch, push, running>>

recVars == <<state, delete_candidates, last>>
ledgerVars == <<failure_log, sync_status, now, max_create_retry,
                retry_cooldown, harakiri, lastcall, script, audit>>
resVars == <<fetch, push, running>>

(***************************************************************************)
(* Universes, tenants and hash trees                                       *)
(***************************************************************************)

\* Tenants, in the order dictionaries iterate over them.
TenantList == <<"t1", "t2">>
Tenants == {TenantList[i] : i \in 1..Len(TenantList)}

\* Largest number of tenants a universe holds state for at one time.
MaxServed == 1

\* "db" is an AimDbUniverse; "mem" a HashTreeStoredUniverse that keeps the
\* inherited get_optimized_state.
Universes == {"db", "mem"}
AimDbUniverses == {"db"}

None == "None"

\* Nodes of a tenant's tree: the tenant object itself (the root) and an
\* object below it, in the order diff lists them.
NodeList == <<"root", "child">>
Nodes == {NodeList[i] : i \in 1..Len(NodeList)}

\* A resource key is the path of a node; the tenant is its first segment.
KeysOf(tenant) == {<<tenant, node>> : node \in Nodes}

\* A tree is given by the keys of its non-dummy nodes.
Trees(tenant) == SUBSET KeysOf(tenant)

\* tree.root: None for a tree without nodes; a dummy root is a placeholder
\* created for children whose parent was never added.
root(tree) ==
    IF tree = {} THEN None
    ELSE IF \E k \in tree : k[2] = "root" THEN "real" ELSE "dummy"

\* tree.root_full_hash: raises AttributeError on an empty tree (NoHash, the
\* None of the requests), otherwise a fingerprint of the whole content: equal
\* for trees holding the same nodes, different otherwise.
NoHash == <<>>
root_full_hash(tree) == IF tree = {} THEN NoHash ELSE <<{k[2] : k \in tree}>>

\* Keys of one tree as a list, in the order of NodeList.
RECURSIVE SortedKeys(_, _)
SortedKeys(keys, i) ==
    IF i > Len(NodeList) THEN <<>>
    ELSE LET here == {k \in keys : k[2] = NodeList[i]}
         IN  (IF here = {} THEN <<>> ELSE <<CHOOSE k \in here : TRUE>>)
             \o SortedKeys(keys, i + 1)

\* receiver.diff(arg): 'add' lists the keys the receiver has and arg lacks,
\* 'remove' the keys arg has and the receiver lacks.
diff(receiver, arg) ==
    [add |-> SortedKeys(receiver \ arg, 1),
     remove |-> SortedKeys(arg \ receiver, 1)]

Range(seq) == {seq[i] : i \in 1..Len(seq)}


(***************************************************************************)
(* get_optimized_state                                                     *)
(***************************************************************************)

\* TenantHashTreeManager.find_changed over the trees visible to the universe:
\* the trees of the requested tenants whose root hash differs from the
\* requested one (a None request always differs).
find_changed(stored, request) ==
    LET changed == {t \in DOMAIN stored \cap DOMAIN request :
                        \/ request[t] = NoHash
                        \/ root_full_hash(stored[t]) # request[t]}
    IN  [t \in changed |-> stored[t]]

\* AimDbUniverse.get_optimized_state; state[u] holds the trees of the served
\* tenants, so the request built over _served_tenants selects within them.
get_optimized_state_aimdb(u, other_state) ==
    LET request == [t \in DOMAIN state[u] |->
                        IF t \in DOMAIN other_state
                        THEN root_full_hash(other_state[t])
                        ELSE NoHash]
    IN  find_changed(state[u], request)

\* HashTreeStoredUniverse.get_optimized_state, overridden by AimDbUniverse.
get_optimized_state(u, other_state) ==
    IF u \in AimDbUniverses
    THEN get_optimized_state_aimdb(u, other_state)
    ELSE state[u]

(***************************************************************************)
(* HashTreeStoredUniverse._reconcile                                       *)
(***************************************************************************)

\* No statement-by-statement pass is under way for a universe.
Idle == [pc |-> "idle"]

\* A pass holds no vote set.
NoVotes == [shared |-> FALSE]

NoPass == [self |-> None]

\* Faulty variant: the tenants of either view are taken, a missing tree
\* counting as an empty one.
RECURSIVE Accumulate_eitherView(_, _, _)
Accumulate_eitherView(my_state, other_state, i) ==
    IF i > Len(TenantList) THEN [create |-> <<>>, delete |-> <<>>]
    ELSE LET tenant == TenantList[i]
             rest == Accumulate_eitherView(my_state, other_state, i + 1)
             mine == IF tenant \in DOMAIN my_state THEN my_state[tenant] ELSE {}
             theirs == IF tenant \in DOMAIN other_state
                       THEN other_state[tenant] ELSE {}
         IN  [create |-> diff(theirs, mine).add \o rest.create,
              delete |-> diff(theirs, mine).remove \o rest.delete]

\* Lines 254-262: the differences of the tenants both views hold, accumulated
\* tenant after tenant into result[CREATE] and result[DELETE].
RECURSIVE Accumulate(_, _, _)
Accumulate(my_state, other_state, i) ==
    IF i > Len(TenantList) THEN [create |-> <<>>, delete |-> <<>>]
    ELSE LET tenant == TenantList[i]
             rest == Accumulate(my_state, other_state, i + 1)
         IN  IF tenant \in DOMAIN my_state \cap DOMAIN other_state
             THEN LET difference == diff(other_state[tenant], my_state[tenant])
                  IN  [create |-> difference.add \o rest.create,
                       delete |-> difference.remove \o rest.delete]
             ELSE rest

\* Faulty variant: the difference taken the wrong way round (my_tenant_state.diff(tree)).
ReconcileResult_swapped(my_state, other_state) ==
    [create |-> Accumulate(my_state, other_state, 1).delete,
     delete |-> Accumulate(my_state, other_state, 1).create]

ReconcileResult(my_state, other_state) == Accumulate(my_state, other_state, 1)

\* Faulty variant: the vote set is replaced instead of extended.
vote_tenant_for_deletion_replacing(self, tenant, candidates) ==
    [t \in DOMAIN candidates \cup {tenant} |->
        IF t = tenant THEN {self} ELSE candidates[t]]

\* _vote_tenant_for_deletion: votes = delete_candidates.setdefault(tenant,
\* set()); votes.add(self).
vote_tenant_for_deletion(self, tenant, candidates) ==
    [t \in DOMAIN candidates \cup {tenant} |->
        IF t = tenant
        THEN (IF t \in DOMAIN candidates THEN candidates[t] ELSE {}) \cup {self}
        ELSE candidates[t]]

\* Faulty variant: the dissenting branch forgets to withdraw the vote.
discard_vote_forgotten(self, tenant, candidates) == candidates

\* Line 285: delete_candidates.get(tenant, set()).discard(self).
discard_vote(self, tenant, candidates) ==
    [t \in DOMAIN candidates |->
        IF t = tenant THEN candidates[t] \ {self} ELSE candidates[t]]

\* Faulty variant: only a tenant missing from the other view counts as stateless.
OtherHasNoState_absentOnly(tenant, other_state) ==
    tenant \notin DOMAIN other_state

\* Line 280: the other universe has nothing for the tenant either.
OtherHasNoState(tenant, other_state) ==
    \/ tenant \notin DOMAIN other_state
    \/ root(other_state[tenant]) = None

\* Faulty variant: the two options are not looked at.
VoteStep_optionsIgnored(self, tenant, tree, other_state, candidates, skip_dummy, always_vote_deletion) ==
    IF root(tree) = None
    THEN IF OtherHasNoState(tenant, other_state)
         THEN vote_tenant_for_deletion(self, tenant, candidates)
         ELSE discard_vote(self, tenant, candidates)
    ELSE candidates

\* Faulty variant: the test for an empty tree (line 279) is dropped.
VoteStep_anyTree(self, tenant, tree, other_state, candidates, skip_dummy, always_vote_deletion) ==
    IF \/ always_vote_deletion
       \/ skip_dummy /\ (root(tree) = None \/ root(tree) = "dummy")
    THEN vote_tenant_for_deletion(self, tenant, candidates)
    ELSE IF OtherHasNoState(tenant, other_state)
         THEN vote_tenant_for_deletion(self, tenant, candidates)
         ELSE discard_vote(self, tenant, candidates)

\* Lines 270-285: what one iteration of the "remove empty tenants" loop does
\* to delete_candidates.
VoteStep(self, tenant, tree, other_state, candidates, skip_dummy, always_vote_deletion) ==
    IF \/ always_vote_deletion
       \/ skip_dummy /\ (root(tree) = None \/ root(tree) = "dummy")
    THEN vote_tenant_for_deletion(self, tenant, candidates)
    ELSE IF root(tree) = None
         THEN IF OtherHasNoState(tenant, other_state)
              THEN vote_tenant_for_deletion(self, tenant, candidates)
              ELSE discard_vote(self, tenant, candidates)
         ELSE candidates

\* Lines 269-285: the loop over my_state.iteritems().
RECURSIVE VoteLoop(_, _, _, _, _, _, _)
VoteLoop(self, my_state, other_state, candidates, skip_dummy, always_vote_deletion, i) ==
    IF i > Len(TenantList) THEN candidates
    ELSE LET tenant == TenantList[i]
             next == IF tenant \in DOMAIN my_state
                     THEN VoteStep(self, tenant, my_state[tenant], other_state,
                                   candidates, skip_dummy, always_vote_deletion)
                     ELSE candidates
         IN  VoteLoop(self, my_state, other_state, next, skip_dummy,
                      always_vote_deletion, i + 1)

\* Faulty variant: only result[CREATE] is looked at.
InSync_createOnly(result) == Len(result.create) = 0

\* Line 287: nothing to create and nothing to delete.
InSync(result) == Len(result.create) = 0 /\ Len(result.delete) = 0

\* get_resources / get_resources_for_delete as the reconciler sees them: a
\* key whose resource the manager no longer finds (its node is in `missing`)
\* yields nothing, every other key yields its resource, in the order of the
\* keys.
RECURSIVE hydrate(_, _)
hydrate(resource_keys, missing) ==
    IF resource_keys = <<>> THEN <<>>
    ELSE LET rest == hydrate(Tail(resource_keys), missing)
         IN  IF Head(resource_keys)[2] \in missing
             THEN rest
             ELSE <<Head(resource_keys)>> \o rest

\* _reconcile(other_universe, delete_candidates, skip_dummy,
\* always_vote_deletion), lines 249-296.
reconcile_impl(self, other, skip_dummy, always_vote_deletion) ==
    LET my_state == state[self]
        other_state == get_optimized_state(other, my_state)
        result == ReconcileResult(my_state, other_state)
    IN  /\ delete_candidates' = VoteLoop(self, my_state, other_state,
                                         delete_candidates, skip_dummy,
                                         always_vote_deletion, 1)
        /\ IF InSync(result)
           THEN last' = [self |-> self, other |-> other,
                         create |-> result.create, delete |-> result.delete,
                         skip_dummy |-> skip_dummy,
                         always_vote_deletion |-> always_vote_deletion,
                         get_resources_calls |-> 0,
                         get_resources_for_delete_calls |-> 0,
                         push_resources_calls |-> 0,
                         pushed |-> None,
                         candidates_before |-> delete_candidates,
                         returned |-> FALSE]
           ELSE \E missing \in SUBSET Nodes :
                  last' = [self |-> self, other |-> other,
                           create |-> result.create, delete |-> result.delete,
                           skip_dummy |-> skip_dummy,
                           always_vote_deletion |-> always_vote_deletion,
                           get_resources_calls |-> 1,
                           get_resources_for_delete_calls |-> 1,
                           push_resources_calls |-> 1,
                           pushed |->
                               [create |-> hydrate(result.create, missing),
                                delete |-> hydrate(result.delete, missing)],
                           candidates_before |-> delete_candidates,
                           returned |-> TRUE]
        /\ UNCHANGED state

\* reconcile(other_universe, delete_candidates), lines 241-242.
reconcile(self, other) ==
    /\ reconcile_impl(self, other, FALSE, FALSE)
    /\ UNCHANGED <<ledgerVars, resVars>>

\* _reconcile(other_universe, delete_candidates, skip_dummy,
\* always_vote_deletion), lines 249-296, as a universe calls it with the
\* options of its choice.
reconcile_with_options(self, other, skip_dummy, always_vote_deletion) ==
    /\ reconcile_impl(self, other, skip_dummy, always_vote_deletion)
    /\ UNCHANGED <<ledgerVars, resVars>>

\* The observed systems change between passes: a tenant's tree is replaced,
\* appears or disappears.
Observe(u, tenant) ==
    /\ \/ \E tree \in Trees(tenant) :
            state' = [state EXCEPT ![u] =
                        [t \in DOMAIN state[u] \cup {tenant} |->
                            IF t = tenant THEN tree ELSE state[u][t]]]
       \/ /\ tenant \in DOMAIN state[u]
          /\ state' = [state EXCEPT ![u] =
                        [t \in DOMAIN state[u] \ {tenant} |-> state[u][t]]]
    /\ Cardinality(DOMAIN state'[u]) <= MaxServed
    /\ last' = NoPass
    /\ UNCHANGED <<delete_candidates, ledgerVars, resVars>>

(***************************************************************************)
(* Failure ledger of HashTreeStoredUniverse                                *)
(***************************************************************************)

\* Largest max_operation_retry and retry_cooldown the configuration may set,
\* and the last instant of the clock.
MaxRetry == 3
MaxCooldown == 2
MaxTime == 5

\* errors.OPERATION_TRANSIENT, UNKNOWN, OPERATION_CRITICAL, SYSTEM_CRITICAL,
\* and a kind error_handlers has no entry for.
OPERATION_TRANSIENT == "operation_transient"
UNKNOWN == "unknown"
OPERATION_CRITICAL == "operation_critical"
SYSTEM_CRITICAL == "system_critical"
ErrorKinds == {OPERATION_TRANSIENT, UNKNOWN, OPERATION_CRITICAL,
               SYSTEM_CRITICAL, "unrecognised"}

Reasons == {"unknown", "timeout"}

\* AIM objects handed to the ledger: two objects with the same type and
\* identity attributes that differ in another attribute.
AimObjects ==
    {[klass |-> "BridgeDomain", tenant_name |-> "t1", name |-> "bd1",
      display_name |-> d] : d \in {"", "web"}}

\* _get_aim_object_identifier: the type name and the identity attributes.
get_aim_object_identifier(aim_object) ==
    <<aim_object.klass, aim_object.tenant_name, aim_object.name>>

AimIds == {get_aim_object_identifier(o) : o \in AimObjects}

NoCall == [op |-> None]
NoFetch == [keys |-> None]
NoPush == [create |-> None]
NoStatus == [sync |-> "sync_pending", message |-> ""]

\* AimManager.set_resource_sync_synced / set_resource_sync_error.
set_resource_sync_synced(status, aim_id) ==
    [status EXCEPT ![aim_id] = [sync |-> "synced", message |-> ""]]

set_resource_sync_error(status, aim_id, message) ==
    [status EXCEPT ![aim_id] = [sync |-> "sync_error", message |-> message]]

\* failure_log.pop(aim_id, None)
pop(log, aim_id) == [i \in DOMAIN log \ {aim_id} |-> log[i]]

\* failure_log[aim_id] = record
put(log, aim_id, record) ==
    [i \in DOMAIN log \cup {aim_id} |-> IF i = aim_id THEN record ELSE log[i]]

\* A timestamp of a failure record: None, or the time of the last counted
\* failure.
NoTime == <<>>
At(time) == <<time>>

\* failure_log.get(aim_id, (0, None))
get(log, aim_id) == IF aim_id \in DOMAIN log THEN log[aim_id] ELSE <<0, NoTime>>

\* Faulty variant: the cooldown comparison is inverted.
CooldownOver_inverted(last_failure, curr_time) ==
    \/ last_failure = NoTime
    \/ last_failure[1] = 0
    \/ curr_time - last_failure[1] <= retry_cooldown

\* Line 341: `not last or curr_time - last >= self.retry_cooldown`; `not last`
\* holds for None and for a timestamp of 0.
CooldownOver(last_failure, curr_time) ==
    \/ last_failure = NoTime
    \/ last_failure[1] = 0
    \/ curr_time - last_failure[1] >= retry_cooldown

\* Faulty variant: no count is ever enough.
Exhausted_never(failures) == FALSE

\* Faulty variant: one failure too many is tolerated.
Exhausted_strict(failures) == failures > max_create_retry

\* Line 343: the count has reached max_operation_retry.
Exhausted(failures) == failures >= max_create_retry

\* _retry_until_max, lines 337-350: the ledger and the sync states it leaves.
retry_until_max(aim_id, reason) ==
    LET failures == get(failure_log, aim_id)[1]
        last_failure == get(failure_log, aim_id)[2]
        curr_time == now
    IN  IF CooldownOver(last_failure, curr_time)
        THEN IF Exhausted(failures + 1)
             THEN [log |-> pop(put(failure_log, aim_id,
                                   <<failures + 1, At(curr_time)>>), aim_id),
                   status |-> set_resource_sync_error(sync_status, aim_id, reason),
                   abort |-> FALSE]
             ELSE [log |-> put(failure_log, aim_id, <<failures + 1, At(curr_time)>>),
                   status |-> sync_status,
                   abort |-> FALSE]
        ELSE [log |-> failure_log, status |-> sync_status, abort |-> FALSE]

\* Faulty variant: an operation-critical failure is counted like a transient
\* one.
surrender_operation_throttled(aim_id, reason) == retry_until_max(aim_id, reason)

\* _surrender_operation, lines 352-356.
surrender_operation(aim_id, reason) ==
    [log |-> pop(failure_log, aim_id),
     status |-> set_resource_sync_error(sync_status, aim_id, reason),
     abort |-> FALSE]

\* Faulty variant: a system-critical failure is ignored.
fail_agent_ignored(aim_id, reason) ==
    [log |-> failure_log, status |-> sync_status, abort |-> FALSE]

\* _fail_agent, lines 358-359: utils.perform_harakiri ends the process.
fail_agent(aim_id, reason) ==
    [log |-> failure_log, status |-> sync_status, abort |-> TRUE]

\* _noop, lines 366-367.
noop(aim_id, reason) ==
    [log |-> failure_log, status |-> sync_status, abort |-> FALSE]

\* error_handlers.get(error, self._noop)(aim_object, operation, reason),
\* lines 224-229 and 332-335.
fail_aim_synchronization(aim_object, reason, error) ==
    LET aim_id == get_aim_object_identifier(aim_object)
    IN  IF error \in {OPERATION_TRANSIENT, UNKNOWN}
        THEN retry_until_max(aim_id, reason)
        ELSE IF error = OPERATION_CRITICAL
        THEN surrender_operation(aim_id, reason)
        ELSE IF error = SYSTEM_CRITICAL
        THEN fail_agent(aim_id, reason)
        ELSE noop(aim_id, reason)

CallRecord(op, aim_object, reason, error) ==
    [op |-> op, aim_id |-> get_aim_object_identifier(aim_object),
     reason |-> reason, error |-> error, time |-> now,
     log_before |-> failure_log, status_before |-> sync_status,
     marked_before |-> audit.marked]

\* creation_failed / deletion_failed, lines 324-330.
Failed(op, aim_object, reason, error) ==
    LET outcome == fail_aim_synchronization(aim_object, reason, error)
    IN  /\ ~harakiri
        /\ failure_log' = outcome.log
        /\ sync_status' = outcome.status
        /\ harakiri' = outcome.abort
        /\ lastcall' = CallRecord(op, aim_object, reason, error)
        /\ UNCHANGED <<now, max_create_retry, retry_cooldown>>

\* What an observer of the reports keeps: the time the retry handler last
\* marked the object sync_error, the times of the transient or unknown
\* reports made since the object's record was opened, and the number of
\* reports counted since the last success (it stops at max_operation_retry).
NoAudit == [marked |-> NoTime, reported |-> {}, since_success |-> 0]

\* The report just made was counted by the retry handler: it changed the
\* ledger, or opened and cleared a record at once.
Counted(aim_id, error) ==
    /\ error \in {OPERATION_TRANSIENT, UNKNOWN}
    /\ aim_id \notin DOMAIN failure_log' \/ failure_log' # failure_log

SinceSuccess(aim_id, error) ==
    IF Counted(aim_id, error) /\ audit.since_success < max_create_retry
    THEN audit.since_success + 1
    ELSE audit.since_success

creation_failed(aim_object, reason, error) ==
    /\ Failed("creation_failed", aim_object, reason, error)
    /\ audit' = [audit EXCEPT !.since_success = SinceSuccess(get_aim_object_identifier(aim_object), error)]
    /\ UNCHANGED <<script, recVars, resVars>>

deletion_failed(aim_object, reason, error) ==
    /\ Failed("deletion_failed", aim_object, reason, error)
    /\ audit' = [audit EXCEPT !.since_success = SinceSuccess(get_aim_object_identifier(aim_object), error)]
    /\ UNCHANGED <<script, recVars, resVars>>

\* creation_failed or deletion_failed with a transient or unknown error, and
\* what the observer notes of it.
retried_failure(op, aim_object, reason, error) ==
    LET aim_id == get_aim_object_identifier(aim_object)
    IN  /\ error \in {OPERATION_TRANSIENT, UNKNOWN}
        /\ Failed(op, aim_object, reason, error)
        /\ audit' =
             [marked |-> IF aim_id \notin DOMAIN failure_log'
                         THEN At(now) ELSE audit.marked,
              reported |-> IF aim_id \in DOMAIN failure_log
                           THEN audit.reported \cup {now} ELSE {now},
              since_success |-> SinceSuccess(aim_id, error)]
        /\ UNCHANGED <<script, recVars, resVars>>

\* Faulty variant: the success is noted but the failure record is kept.
creation_succeeded_keeping_record(aim_object) ==
    LET aim_id == get_aim_object_identifier(aim_object)
    IN  /\ ~harakiri
        /\ sync_status' = set_resource_sync_synced(sync_status, aim_id)
        /\ lastcall' = CallRecord("creation_succeeded", aim_object, "", None)
        /\ audit' = [audit EXCEPT !.since_success = 0]
        /\ UNCHANGED <<failure_log, now, max_create_retry, retry_cooldown,
                       harakiri, script, recVars, resVars>>

\* creation_succeeded, lines 319-322.
creation_succeeded(aim_object) ==
    LET aim_id == get_aim_object_identifier(aim_object)
    IN  /\ ~harakiri
        /\ failure_log' = pop(failure_log, aim_id)
        /\ sync_status' = set_resource_sync_synced(sync_status, aim_id)
        /\ lastcall' = CallRecord("creation_succeeded", aim_object, "", None)
        /\ audit' = [audit EXCEPT !.since_success = 0]
        /\ UNCHANGED <<now, max_create_retry, retry_cooldown, harakiri,
                       script, recVars, resVars>>

\* The retry escalation scenario: creation_failed(transient) calls on one
\* object at these instants, with max_operation_retry = 3 and
\* retry_cooldown = 10.
ScenarioTimes == <<0, 11, 22, 33>>
ScriptOff == Len(ScenarioTimes) + 1

\* How far the calls made so far follow the scenario.
Follows(error) ==
    IF /\ script < Len(ScenarioTimes)
       /\ error = OPERATION_TRANSIENT
       /\ now = ScenarioTimes[script + 1]
    THEN script + 1
    ELSE ScriptOff

scenario_creation_failed(aim_object, reason, error) ==
    /\ Failed("creation_failed", aim_object, reason, error)
    /\ script' = Follows(error)
    /\ UNCHANGED <<audit, recVars, resVars>>

ScenarioTick ==
    /\ ~harakiri
    /\ now < ScenarioTimes[Len(ScenarioTimes)]
    /\ now' = now + 1
    /\ lastcall' = NoCall
    /\ UNCHANGED <<failure_log, sync_status, max_create_retry, retry_cooldown,
                   harakiri, script, audit, recVars, resVars>>

\* time.time() moves on between two calls.
Tick ==
    /\ ~harakiri
    /\ now < MaxTime
    /\ now' = now + 1
    /\ lastcall' = NoCall
    /\ UNCHANGED <<failure_log, sync_status, max_create_retry, retry_cooldown,
                   harakiri, script, audit, recVars, resVars>>

InitLedgerIdle ==
    /\ failure_log = <<>>
    /\ sync_status = [i \in AimIds |-> NoStatus]
    /\ now = 0
    /\ max_create_retry = 1
    /\ retry_cooldown = 1
    /\ harakiri = FALSE
    /\ lastcall = NoCall
    /\ script = 0
    /\ audit = NoAudit

\* initialize(): self._state = {}; the orchestrator starts with no votes.
InitUniverses ==
    /\ state = [u \in Universes |-> <<>>]
    /\ delete_candidates = <<>>
    /\ last = NoPass
    /\ fetch = NoFetch
    /\ push = NoPush
    /\ running = [u \in Universes |-> Idle]

Init == InitUniverses /\ InitLedgerIdle

Next ==
    \/ \E self \in Universes : \E other \in Universes \ {self} :
          reconcile(self, other)
    \/ \E u \in Universes, tenant \in Tenants : Observe(u, tenant)

Spec == Init /\ [][Next]_vars

\* The universes under passes made with any choice of the two options, while
\* the first tenant comes, changes and goes in either universe.
OptionsNext ==
    \/ \E self \in Universes : \E other \in Universes \ {self} :
          \E skip_dummy \in BOOLEAN, always_vote_deletion \in BOOLEAN :
             reconcile_with_options(self, other, skip_dummy, always_vote_deletion)
    \/ \E u \in Universes : Observe(u, TenantList[1])

OptionsSpec == Init /\ [][OptionsNext]_vars

(***************************************************************************)
(* Passes of several universes on one delete_candidates map, followed      *)
(* statement by statement.  The source takes no lock around the map; a     *)
(* call of a method of a built-in dict or set is one step, and the passes  *)
(* interleave between such calls.                                          *)
(***************************************************************************)

\* Faulty variant: the entry is overwritten with a new set.
setdefault_overwriting(candidates, tenant) ==
    [t \in DOMAIN candidates \cup {tenant} |->
        IF t = tenant THEN {} ELSE candidates[t]]

\* delete_candidates.setdefault(tenant, set()), line 246: the map afterwards.
setdefault(candidates, tenant) ==
    [t \in DOMAIN candidates \cup {tenant} |->
        IF t \in DOMAIN candidates THEN candidates[t] ELSE {}]

\* votes.add(self), line 247, on the set the map holds for the tenant.
add(candidates, tenant, self) ==
    [candidates EXCEPT ![tenant] = @ \cup {self}]

\* .discard(self), line 285, on the set the map holds for the tenant.
discard(candidates, tenant, self) ==
    [candidates EXCEPT ![tenant] = @ \ {self}]

\* Lines 270-285: what the loop body decides for one tenant of my_state.
Branch(tenant, tree, other_state, skip_dummy, always_vote_deletion) ==
    IF \/ always_vote_deletion
       \/ skip_dummy /\ (root(tree) = None \/ root(tree) = "dummy")
    THEN "vote"
    ELSE IF root(tree) = None
         THEN IF OtherHasNoState(tenant, other_state) THEN "vote" ELSE "dissent"
         ELSE "none"

\* The tenants whose vote sets hold the universe.
VotedBy(u, candidates) == {t \in DOMAIN candidates : u \in candidates[t]}

\* What lines 270-285 decide for each tenant of my_state; the views and the
\* options are fixed when the pass begins, so its decisions are too.
Branches(my_state, other_state, skip_dummy, always_vote_deletion) ==
    [t \in DOMAIN my_state |->
        Branch(t, my_state[t], other_state, skip_dummy, always_vote_deletion)]

\* Lines 252-253: the pass takes its two views; the differences of lines
\* 254-267 are local to the pass.
begin_reconcile(self, other, skip_dummy, always_vote_deletion) ==
    /\ running[self].pc \in {"idle", "done"}
    /\ running' = [running EXCEPT ![self] =
           [pc |-> "loop", i |-> 1,
            branches |-> Branches(state[self],
                                  get_optimized_state(other, state[self]),
                                  skip_dummy, always_vote_deletion),
            votes |-> NoVotes,
            decided |-> <<>>,
            before |-> VotedBy(self, delete_candidates),
            overlapped |-> \E u \in Universes \ {self} :
                              running[u].pc \in {"add", "discard"}]]
    /\ UNCHANGED <<recVars, ledgerVars, fetch, push>>

\* The tenant the loop of line 269 is at, and what lines 270-280 decide.
TenantAt(self) == TenantList[running[self].i]

BranchAt(self) ==
    IF TenantAt(self) \in DOMAIN running[self].branches
    THEN running[self].branches[TenantAt(self)]
    ELSE "none"

InLoop(self) ==
    /\ running[self].pc = "loop"
    /\ running[self].i <= Len(TenantList)

Decide(self, what) ==
    [t \in DOMAIN running[self].decided \cup {TenantAt(self)} |->
        IF t = TenantAt(self) THEN what ELSE running[self].decided[t]]

\* Line 246: votes = delete_candidates.setdefault(tenant, set()).
setdefault_votes(self) ==
    /\ InLoop(self)
    /\ BranchAt(self) = "vote"
    /\ delete_candidates' = setdefault(delete_candidates, TenantAt(self))
    /\ running' = [running EXCEPT ![self].pc = "add",
                                  ![self].votes = [shared |-> TRUE],
                                  ![self].decided = Decide(self, "vote")]
    /\ UNCHANGED <<state, last, ledgerVars, fetch, push>>

\* Line 247: votes.add(self).
add_vote(self) ==
    /\ running[self].pc = "add"
    /\ delete_candidates' = add(delete_candidates, TenantAt(self), self)
    /\ running' = [running EXCEPT ![self].pc = "loop",
                                  ![self].i = @ + 1,
                                  ![self].votes = NoVotes]
    /\ UNCHANGED <<state, last, ledgerVars, fetch, push>>

\* Line 285, first half: delete_candidates.get(tenant, set()) yields the set
\* of the map, or a new set of its own when the map has none for the tenant.
get_votes(self) ==
    /\ InLoop(self)
    /\ BranchAt(self) = "dissent"
    /\ running' = [running EXCEPT ![self].pc = "discard",
                                  ![self].votes =
                                      [shared |-> TenantAt(self) \in
                                                     DOMAIN delete_candidates],
                                  ![self].decided = Decide(self, "dissent")]
    /\ UNCHANGED <<recVars, ledgerVars, fetch, push>>

\* Line 285, second half: .discard(self) on the set that get returned.
discard_own_vote(self) ==
    /\ running[self].pc = "discard"
    /\ delete_candidates' =
           IF running[self].votes.shared
           THEN discard(delete_candidates, TenantAt(self), self)
           ELSE delete_candidates
    /\ running' = [running EXCEPT ![self].pc = "loop",
                                  ![self].i = @ + 1,
                                  ![self].votes = NoVotes]
    /\ UNCHANGED <<state, last, ledgerVars, fetch, push>>

\* Lines 269-285 for a tenant that is neither voted on nor dissented from.
pass_over_tenant(self) ==
    /\ InLoop(self)
    /\ BranchAt(self) = "none"
    /\ running' = [running EXCEPT ![self].i = @ + 1]
    /\ UNCHANGED <<recVars, ledgerVars, fetch, push>>

\* Lines 286-296: the loop is over; the rest of the pass leaves the map alone.
end_reconcile(self) ==
    /\ running[self].pc = "loop"
    /\ running[self].i > Len(TenantList)
    /\ running' = [running EXCEPT ![self].pc = "done"]
    /\ UNCHANGED <<recVars, ledgerVars, fetch, push>>

ConcurrentNext ==
    \/ \E self \in Universes : \E other \in Universes \ {self} :
          \E skip_dummy \in BOOLEAN, always_vote_deletion \in BOOLEAN :
             begin_reconcile(self, other, skip_dummy, always_vote_deletion)
    \/ \E self \in Universes : setdefault_votes(self)
    \/ \E self \in Universes : add_vote(self)
    \/ \E self \in Universes : get_votes(self)
    \/ \E self \in Universes : discard_own_vote(self)
    \/ \E self \in Universes : pass_over_tenant(self)
    \/ \E self \in Universes : end_reconcile(self)
    \/ \E u \in Universes : Observe(u, TenantList[1])

ConcurrentSpec == Init /\ [][ConcurrentNext]_vars

\* initialize(), lines 211-231: an empty failure log and the two options read
\* from the configuration.
InitLedger ==
    /\ failure_log = <<>>
    /\ sync_status = [i \in AimIds |-> NoStatus]
    /\ now = 0
    /\ max_create_retry \in 1..MaxRetry
    /\ retry_cooldown \in 1..MaxCooldown
    /\ harakiri = FALSE
    /\ lastcall = NoCall
    /\ script = 0
    /\ audit = NoAudit

LedgerInit == InitUniverses /\ InitLedger

LedgerNext ==
    \/ \E o \in AimObjects, reason \in Reasons, error \in ErrorKinds :
          creation_failed(o, reason, error)
    \/ \E o \in AimObjects, reason \in Reasons, error \in ErrorKinds :
          deletion_failed(o, reason, error)
    \/ \E o \in AimObjects : creation_succeeded(o)
    \/ Tick

LedgerSpec == LedgerInit /\ [][LedgerNext]_vars

\* The ledger under transient and unknown failure reports alone.
BudgetNext ==
    \/ \E op \in {"creation_failed", "deletion_failed"}, o \in AimObjects :
          \E reason \in Reasons, error \in {OPERATION_TRANSIENT, UNKNOWN} :
             retried_failure(op, o, reason, error)
    \/ Tick

BudgetSpec == LedgerInit /\ [][BudgetNext]_vars

\* An object that keeps failing: the caller reports a transient or unknown
\* failure, lets at least retry_cooldown pass and reports again, and no
\* success comes in between.  The clock ends at MaxTime, so a run of reports
\* is begun, and the clock moved on, only while the max_operation_retry
\* reports of the run still find room before that.
Latest(times) == CHOOSE t \in times : \A u \in times : u <= t

ReportsOfRun ==
    IF failure_log = <<>> THEN 0 ELSE Cardinality(audit.reported)

ReportDue ==
    IF audit.reported = {} THEN TRUE
    ELSE now - Latest(audit.reported) >= retry_cooldown

\* The time of the last report of the run if its next report is made at
\* `time` or as soon after as the cooldown allows.
EndOfRun(time) ==
    LET next == IF audit.reported = {} THEN time
                ELSE IF Latest(audit.reported) + retry_cooldown > time
                     THEN Latest(audit.reported) + retry_cooldown
                     ELSE time
    IN  next + (max_create_retry - ReportsOfRun - 1) * retry_cooldown

repeated_failure(op, aim_object, reason, error) ==
    /\ ReportDue
    /\ EndOfRun(now) <= MaxTime
    /\ retried_failure(op, aim_object, reason, error)

Wait ==
    /\ EndOfRun(now + 1) <= MaxTime
    /\ Tick

Report ==
    \E op \in {"creation_failed", "deletion_failed"}, o \in AimObjects :
       \E reason \in Reasons, error \in {OPERATION_TRANSIENT, UNKNOWN} :
          repeated_failure(op, o, reason, error)

RepeatedInit ==
    /\ InitUniverses
    /\ failure_log = <<>>
    /\ sync_status = [i \in AimIds |-> NoStatus]
    /\ max_create_retry \in 1..MaxRetry
    /\ retry_cooldown \in 1..MaxCooldown
    /\ now \in 0..MaxTime
    /\ now + (max_create_retry - 1) * retry_cooldown <= MaxTime
    /\ harakiri = FALSE
    /\ lastcall = NoCall
    /\ script = 0
    /\ audit = NoAudit

RepeatedNext == Report \/ Wait

RepeatedSpec ==
    RepeatedInit /\ [][RepeatedNext]_vars /\ WF_vars(Report) /\ WF_vars(Wait)

\* The scenario's configuration.
EscalationInit ==
    /\ InitUniverses
    /\ failure_log = <<>>
    /\ sync_status = [i \in AimIds |-> NoStatus]
    /\ now = 0
    /\ max_create_retry = 3
    /\ retry_cooldown = 10
    /\ harakiri = FALSE
    /\ lastcall = NoCall
    /\ script = 0
    /\ audit = NoAudit

EscalationNext ==
    \/ \E o \in AimObjects, reason \in Reasons, error \in ErrorKinds :
          scenario_creation_failed(o, reason, error)
    \/ ScenarioTick

EscalationSpec == EscalationInit /\ [][EscalationNext]_vars

(***************************************************************************)
(* AimDbUniverse.get_resources                                             *)
(***************************************************************************)

\* Longest list of keys handed to get_resources.
MaxKeys == 3

ACI_FAULT == "faultInst"

\* converter.resource_map: the AIM class of each ACI type the converter
\* knows.  "vzFilter" is converted to a class the AIM manager has no model
\* for; "l3extOut" is a type the converter does not know.
resource_map == [fvBD |-> "BridgeDomain", fvCtx |-> "VRF", vzFilter |-> "Filter"]

\* klass.identity_attributes
identity_attributes(klass) == <<"tenant_name", "name">>

\* Classes for which AimManager.get / get_status do not raise
\* UnknownResourceType.
ManagedKlasses == {"BridgeDomain", "VRF"}

\* Keys: a tenant segment, a resource segment and, for a fault, a fault
\* segment; a segment "type|name" is kept as <<type, name>>.
TenantSegment == <<"fvTenant", "t1">>
ResourceKeys ==
    {<<TenantSegment, <<"fvBD", "bd1">>>>, <<TenantSegment, <<"fvBD", "bd2">>>>,
     <<TenantSegment, <<"fvCtx", "bd1">>>>, <<TenantSegment, <<"vzFilter", "f1">>>>,
     <<TenantSegment, <<"l3extOut", "o1">>>>}
FaultKeys ==
    {<<TenantSegment, <<"fvBD", "bd1">>, <<ACI_FAULT, code>>>> : code \in {"F0123", "F0456"}}
Keys == ResourceKeys \cup FaultKeys

KeyLists == UNION {[1..n -> Keys] : n \in 0..MaxKeys}

\* _dissect_key, lines 233-236: the type of the last segment and the names of
\* all segments.
dissect_key(key) ==
    [type |-> key[Len(key)][1], ids |-> [i \in 1..Len(key) |-> key[i][2]]]

\* Line 91-93: a fault key is dissected again without its last segment.
fault_code_of(key) ==
    IF dissect_key(key).type = ACI_FAULT
    THEN dissect_key(key).ids[Len(key)]
    ELSE None

dissected_of(key) ==
    IF dissect_key(key).type = ACI_FAULT
    THEN dissect_key(SubSeq(key, 1, Len(key) - 1))
    ELSE dissect_key(key)

\* Lines 95-97: klass(**identity), the resource with its identity attributes
\* only.
shell(klass, ids) ==
    [klass |-> klass,
     ids |-> [i \in 1..Len(identity_attributes(klass)) |-> ids[i]],
     fault_code |-> None, hydrated |-> FALSE]

\* Line 98-101: the (attribute, value) pairs of the identity, followed by
\* 'fault' and the fault code for a fault key.
id_tuple_of(res, fault_code) ==
    LET pairs == [i \in 1..Len(res.ids) |->
                     <<identity_attributes(res.klass)[i], res.ids[i]>>]
    IN  IF fault_code # None /\ fault_code # ""
        THEN pairs \o <<"fault", fault_code>>
        ELSE pairs

\* The manager's store: the resources it holds and the faults of their
\* statuses.
StoredObjects ==
    {[klass |-> "BridgeDomain", ids |-> <<"t1", "bd1">>],
     [klass |-> "BridgeDomain", ids |-> <<"t1", "bd2">>],
     [klass |-> "VRF", ids |-> <<"t1", "bd1">>]}
StoredFaults ==
    {[klass |-> "BridgeDomain", ids |-> <<"t1", "bd1">>, fault_code |-> code] :
        code \in {"F0123", "F0456"}}
Stores ==
    {s \in [objects : SUBSET StoredObjects, faults : SUBSET StoredFaults] :
        \A x \in s.faults : [klass |-> x.klass, ids |-> x.ids] \in s.objects}

\* What a lookup returns: None, or the resource it found.
NoResource == <<>>
Found(res) == <<res>>

\* manager.get(context, res): the stored resource, or None.
manager_get(store, res) ==
    IF [klass |-> res.klass, ids |-> res.ids] \in store.objects
    THEN Found([res EXCEPT !.hydrated = TRUE])
    ELSE NoResource

\* Lines 105-111: manager.get_status(context, res) and the scan of its
\* faults for the fault code.
status_fault(store, res, fault_code) ==
    IF /\ [klass |-> res.klass, ids |-> res.ids] \in store.objects
       /\ [klass |-> res.klass, ids |-> res.ids, fault_code |-> fault_code]
             \in store.faults
    THEN Found([klass |-> "AciFault", ids |-> res.ids,
                fault_code |-> fault_code, hydrated |-> TRUE])
    ELSE NoResource

NoResult == [raised |-> None]

\* Faulty variant: every key is hydrated, seen before or not.
Seen_never(id_tuple, id_set) == FALSE

\* Line 102: `id_tuple not in id_set`, negated.
Seen(id_tuple, id_set) == id_tuple \in id_set

\* Lines 88-120, one turn of the loop for keys[i] and the turns after it.
RECURSIVE get_resources_from(_, _, _, _, _)
get_resources_from(store, resource_keys, i, result, id_set) ==
    IF i > Len(resource_keys)
    THEN [raised |-> FALSE, list |-> result]
    ELSE
      LET key == resource_keys[i]
          fault_code == fault_code_of(key)
          dissected == dissected_of(key)
      IN  IF dissected.type \notin DOMAIN resource_map
          THEN [raised |-> TRUE, list |-> <<>>]
          ELSE
            LET klass == resource_map[dissected.type]
                res == shell(klass, dissected.ids)
                id_tuple == id_tuple_of(res, fault_code)
                res_db == IF fault_code # None /\ fault_code # ""
                          THEN status_fault(store, res, fault_code)
                          ELSE manager_get(store, res)
            IN  IF Seen(id_tuple, id_set)
                THEN get_resources_from(store, resource_keys, i + 1, result, id_set)
                ELSE IF klass \notin ManagedKlasses
                THEN get_resources_from(store, resource_keys, i + 1,
                                        Append(result, res), id_set \cup {id_tuple})
                ELSE IF res_db # NoResource
                THEN get_resources_from(store, resource_keys, i + 1,
                                        Append(result, res_db[1]), id_set \cup {id_tuple})
                ELSE get_resources_from(store, resource_keys, i + 1, result, id_set)

\* get_resources(resource_keys), lines 85-122, on the call drawn at the
\* start.
get_resources ==
    /\ fetch # NoFetch
    /\ fetch.result = NoResult
    /\ fetch' = [fetch EXCEPT !.result =
                    get_resources_from(fetch.store, fetch.keys, 1, <<>>, {})]
    /\ UNCHANGED <<recVars, ledgerVars, push, running>>

\* get_resources_for_delete(resource_keys), lines 124-125.
get_resources_for_delete ==
    /\ fetch # NoFetch
    /\ fetch.result = NoResult
    /\ fetch' = [fetch EXCEPT !.for_delete = TRUE, !.result =
                    get_resources_from(fetch.store, fetch.keys, 1, <<>>, {})]
    /\ UNCHANGED <<recVars, ledgerVars, push, running>>

FetchInit ==
    /\ state = [u \in Universes |-> <<>>]
    /\ delete_candidates = <<>>
    /\ last = NoPass
    /\ InitLedgerIdle
    /\ push = NoPush
    /\ running = [u \in Universes |-> Idle]
    /\ \E keys \in KeyLists, store \in Stores :
          fetch = [keys |-> keys, store |-> store, for_delete |-> FALSE,
                   result |-> NoResult]

FetchNext == get_resources \/ get_resources_for_delete

FetchSpec == FetchInit /\ [][FetchNext]_vars

(***************************************************************************)
(* AimDbUniverse.push_resources                                            *)
(***************************************************************************)

\* Longest list of items in one bucket of a push_resources call.
MaxItems == 2

\* Objects in the other universe's format: an ACI type and a DN, kept as
\* its segments.  The last one is a fault on an object of a type the
\* converter does not know.
AciObjects ==
    {[type |-> "fvBD", dn |-> <<TenantSegment, <<"fvBD", "bd1">>>>],
     [type |-> "fvBD", dn |-> <<TenantSegment, <<"fvBD", "bd2">>>>],
     [type |-> "l3extOut", dn |-> <<TenantSegment, <<"l3extOut", "o1">>>>],
     [type |-> ACI_FAULT,
      dn |-> <<TenantSegment, <<"fvBD", "bd1">>, <<ACI_FAULT, "F0123">>>>],
     [type |-> ACI_FAULT,
      dn |-> <<TenantSegment, <<"l3extOut", "o1">>, <<ACI_FAULT, "F0123">>>>]}

\* aim_status.AciFault(fault_code, external_identifier)
AciFault(fault_code, external_identifier) ==
    [klass |-> "AciFault", fault_code |-> fault_code,
     external_identifier |-> external_identifier]

\* AIM resources, as get_resources_for_delete returns them.
AimResources ==
    {[klass |-> "BridgeDomain", ids |-> <<"t1", "bd1">>],
     [klass |-> "BridgeDomain", ids |-> <<"t1", "bd2">>],
     AciFault("F0123", <<TenantSegment, <<"fvBD", "bd1">>, <<ACI_FAULT, "F0123">>>>)}

\* Resources on which every call of the manager raises.
Rejections == {{}, {[klass |-> "BridgeDomain", ids |-> <<"t1", "bd2">>]}}

ItemLists(items) == UNION {[1..n -> items] : n \in 0..MaxItems}

\* AciToAimModelConverter.convert([item]): the AIM resources of an ACI
\* object, none for a type the converter does not know.
convert(item) ==
    IF item.type = ACI_FAULT
    THEN <<AciFault(item.dn[Len(item.dn)][2], item.dn)>>
    ELSE IF item.type \in DOMAIN resource_map
    THEN <<[klass |-> resource_map[item.type],
            ids |-> [i \in 1..Len(item.dn) |-> item.dn[i][2]]]>>
    ELSE <<>>

\* _retrieve_fault_parent, lines 164-176, up to the conversion: the ACI
\* object named by the fault's DN without its last segment.
aci_parent(fault) ==
    LET decomposed == SubSeq(fault.external_identifier, 1,
                             Len(fault.external_identifier) - 1)
    IN  [type |-> decomposed[Len(decomposed)][1], dn |-> decomposed]

\* Faulty variant: set_fault and clear_fault change places.
fault_method_swapped(method) ==
    IF method = "create" THEN "clear_fault" ELSE "set_fault"

\* Lines 128-129.
fault_method(method) ==
    IF method = "create" THEN "set_fault" ELSE "clear_fault"

NoFault == <<>>

\* Lines 139-158 for one resource: the call made to the manager, if any,
\* and whether the resource raised.
push_resource(method, resource, index, rejected) ==
    IF resource.klass = "AciFault"
    THEN LET parents == convert(aci_parent(resource))
         IN  IF parents = <<>>
             THEN [calls |-> <<>>, failed |-> TRUE]
             ELSE [calls |-> <<[fn |-> fault_method(method),
                                resource |-> parents[1],
                                fault |-> <<resource>>, overwrite |-> FALSE,
                                method |-> method, index |-> index]>>,
                   failed |-> parents[1] \in rejected]
    ELSE [calls |-> <<[fn |-> IF method = "create" THEN "create" ELSE "delete",
                       resource |-> resource,
                       fault |-> NoFault, overwrite |-> method = "create",
                       method |-> method, index |-> index]>>,
          failed |-> resource \in rejected]

\* Lines 138-158: `for resource in converted`, left at the first resource
\* that raises.
RECURSIVE push_converted(_, _, _, _, _)
push_converted(method, converted, k, index, rejected) ==
    IF k > Len(converted)
    THEN [calls |-> <<>>, failed |-> FALSE]
    ELSE LET first == push_resource(method, converted[k], index, rejected)
             others == push_converted(method, converted, k + 1, index, rejected)
         IN  IF first.failed
             THEN first
             ELSE [calls |-> first.calls \o others.calls, failed |-> others.failed]

\* Lines 134-137.
converted_of(method, item) ==
    IF method = "delete" THEN <<item>> ELSE convert(item)

NoOutcome == [calls |-> <<>>, errors |-> <<>>, raised |-> FALSE]

\* Faulty variant: the exception of an item leaves the method.
except_nothing(outcome, method, index, rest) ==
    IF outcome.failed
    THEN [calls |-> outcome.calls, errors |-> <<>>, raised |-> TRUE]
    ELSE [calls |-> outcome.calls \o rest.calls, errors |-> rest.errors,
          raised |-> rest.raised]

\* Lines 133 and 159-162: the exception of an item is logged and the loop
\* goes on with the items after it.
except_Exception(outcome, method, index, rest) ==
    [calls |-> outcome.calls \o rest.calls,
     errors |-> (IF outcome.failed THEN <<<<method, index>>>> ELSE <<>>)
                    \o rest.errors,
     raised |-> rest.raised]

\* Line 131: `for item in resources[method]`, from item `index` on, and
\* then `rest`, the buckets after this one.
RECURSIVE push_items(_, _, _, _, _)
push_items(method, items, index, rejected, rest) ==
    IF index > Len(items)
    THEN rest
    ELSE except_Exception(
             push_converted(method, converted_of(method, items[index]), 1,
                            index, rejected),
             method, index,
             push_items(method, items, index + 1, rejected, rest))

\* push_resources(resources), lines 127-162; `for method in resources` takes
\* the two buckets in the order the dictionary yields them.
push_resources ==
    /\ push # NoPush
    /\ ~push.done
    /\ \E order \in {<<"create", "delete">>, <<"delete", "create">>} :
          LET resources == [create |-> push.create, delete |-> push.delete]
              outcome ==
                 push_items(order[1], resources[order[1]], 1, push.rejected,
                    push_items(order[2], resources[order[2]], 1,
                               push.rejected, NoOutcome))
          IN  push' = [push EXCEPT !.done = TRUE, !.order = order,
                                   !.calls = outcome.calls,
                                   !.errors = outcome.errors,
                                   !.raised = outcome.raised]
    /\ UNCHANGED <<recVars, ledgerVars, fetch, running>>

PushInit ==
    /\ state = [u \in Universes |-> <<>>]
    /\ delete_candidates = <<>>
    /\ last = NoPass
    /\ InitLedgerIdle
    /\ fetch = NoFetch
    /\ running = [u \in Universes |-> Idle]
    /\ \E create \in ItemLists(AciObjects), delete \in ItemLists(AimResources) :
          \E rejected \in Rejections :
             push = [create |-> create, delete |-> delete,
                     rejected |-> rejected, done |-> FALSE, order |-> <<>>,
                     calls |-> <<>>, errors |-> <<>>, raised |-> FALSE]

PushNext == push_resources

PushSpec == PushInit /\ [][PushNext]_vars

(***************************************************************************)
(* Properties of a reconcile pass.  In a state with last # NoPass the      *)
(* universes still hold the state the pass read: Observe clears `last`.    *)
(***************************************************************************)

PassDone == last # NoPass
PlainPass == PassDone /\ ~last.skip_dummy /\ ~last.always_vote_deletion

\* The views the pass recorded in `last` worked on.
Mine == state[last.self]
Theirs == get_optimized_state(last.other, state[last.self])

KeysFor(seq, tenant) == {k \in Range(seq) : k[1] = tenant}
NoDuplicates(seq) == \A i, j \in 1..Len(seq) : seq[i] = seq[j] => i = j

VotesOf(candidates, tenant) ==
    IF tenant \in DOMAIN candidates THEN candidates[tenant] ELSE {}

\* C1: for every tenant held by both self.state and the other's optimized
\* view, create holds exactly the keys the other's tree has and self's lacks,
\* delete exactly the keys self's tree has and the other's lacks, and removing
\* the delete keys from self's tree and adding the create keys gives the
\* other's tree.
C1_DiffTransformsSelfIntoOther ==
    PassDone =>
        /\ NoDuplicates(last.create) /\ NoDuplicates(last.delete)
        /\ \A t \in DOMAIN Mine \cap DOMAIN Theirs :
              /\ KeysFor(last.create, t) = Theirs[t] \ Mine[t]
              /\ KeysFor(last.delete, t) = Mine[t] \ Theirs[t]
              /\ (Mine[t] \ KeysFor(last.delete, t)) \cup KeysFor(last.create, t)
                     = Theirs[t]

C1_Witness ==
    /\ PassDone
    /\ \E t \in DOMAIN Mine \cap DOMAIN Theirs :
          /\ KeysFor(last.create, t) # {}
          /\ KeysFor(last.delete, t) # {}

\* C2: a pass with nothing to create and nothing to delete returns false and
\* calls none of get_resources, get_resources_for_delete and push_resources;
\* any other pass calls each of them once, pushes what the two hydrations
\* returned and returns true, also when the hydrations returned nothing.
C2_PushOnlyWhenDifferent ==
    PassDone =>
        IF last.create = <<>> /\ last.delete = <<>>
        THEN /\ last.returned = FALSE
             /\ last.get_resources_calls = 0
             /\ last.get_resources_for_delete_calls = 0
             /\ last.push_resources_calls = 0
             /\ last.pushed = None
        ELSE /\ last.returned = TRUE
             /\ last.get_resources_calls = 1
             /\ last.get_resources_for_delete_calls = 1
             /\ last.push_resources_calls = 1
             /\ \E missing \in SUBSET Nodes :
                   last.pushed = [create |-> hydrate(last.create, missing),
                                  delete |-> hydrate(last.delete, missing)]

C2_Witness ==
    /\ PassDone
    /\ last.returned = TRUE
    /\ last.push_resources_calls = 1
    /\ last.pushed = [create |-> <<>>, delete |-> <<>>]

\* C3: after a plain pass, self votes for every tenant of self.state whose
\* tree is empty while the other's optimized view lacks the tenant or holds an
\* empty tree for it, also when the pass returned false.
C3_EmptyTenantGetsVote ==
    PlainPass =>
        \A t \in DOMAIN Mine :
            (Mine[t] = {} /\ (t \notin DOMAIN Theirs \/ Theirs[t] = {}))
                => last.self \in VotesOf(delete_candidates, t)

C3_Witness ==
    /\ PlainPass
    /\ last.returned = FALSE
    /\ \E t \in DOMAIN Mine :
          /\ Mine[t] = {}
          /\ t \notin DOMAIN Theirs
          /\ last.self \notin VotesOf(last.candidates_before, t)
          /\ last.self \in VotesOf(delete_candidates, t)

\* C4: dissent. A vote of self placed by an earlier pass is withdrawn by a
\* plain pass in which self's tree for the tenant is empty and the other's
\* tree for it is not.
C4_DissentWithdrawsVote ==
    PlainPass =>
        \A t \in DOMAIN Mine :
            (/\ last.self \in VotesOf(last.candidates_before, t)
             /\ Mine[t] = {}
             /\ t \in DOMAIN state[last.other]
             /\ state[last.other][t] # {})
                => last.self \notin VotesOf(delete_candidates, t)

C4_Witness ==
    /\ PlainPass
    /\ \E t \in DOMAIN Mine :
          /\ last.self \in VotesOf(last.candidates_before, t)
          /\ Mine[t] = {}
          /\ t \in DOMAIN state[last.other]
          /\ state[last.other][t] # {}
          /\ last.self \notin VotesOf(delete_candidates, t)

\* C5 (as claimed): after a plain pass self is among the votes of a tenant only
\* if self's tree for that tenant was empty in the pass.
C5_VoteOnlyWhileEmpty ==
    PlainPass =>
        \A t \in Tenants :
            last.self \in VotesOf(delete_candidates, t)
                => (t \in DOMAIN Mine /\ Mine[t] = {})

\* C6: a pass changes delete_candidates only in self's own membership, and
\* only for tenants of self.state; entries of other tenants are untouched.
C6_OnlyOwnVotesChange ==
    PassDone =>
        \A t \in Tenants :
            IF t \in DOMAIN Mine
            THEN /\ VotesOf(delete_candidates, t) \ {last.self}
                        = VotesOf(last.candidates_before, t) \ {last.self}
                 /\ t \in DOMAIN last.candidates_before
                        => t \in DOMAIN delete_candidates
            ELSE /\ t \in DOMAIN delete_candidates
                        <=> t \in DOMAIN last.candidates_before
                 /\ t \in DOMAIN delete_candidates
                        => delete_candidates[t] = last.candidates_before[t]

C6_Witness ==
    /\ PassDone
    /\ \E t1 \in Tenants \ DOMAIN Mine, t2 \in DOMAIN Mine :
          /\ last.other \in VotesOf(delete_candidates, t1)
          /\ last.other \in VotesOf(last.candidates_before, t2)
          /\ last.self \notin VotesOf(last.candidates_before, t2)
          /\ last.self \in VotesOf(delete_candidates, t2)

\* C7: sync-only. When t1 is the one tenant self and the other carry and their
\* trees for it have the same root hash, the pass returns false, does not call
\* push_resources and leaves delete_candidates[t1] as it was.
SyncOnly ==
    /\ PassDone
    /\ DOMAIN Mine = {"t1"}
    /\ DOMAIN state[last.other] = {"t1"}
    /\ root_full_hash(Mine["t1"]) # NoHash
    /\ root_full_hash(Mine["t1"]) = root_full_hash(state[last.other]["t1"])

C7_SyncOnlyLeavesAllAlone ==
    SyncOnly =>
        /\ last.returned = FALSE
        /\ last.push_resources_calls = 0
        /\ ("t1" \in DOMAIN delete_candidates
                <=> "t1" \in DOMAIN last.candidates_before)
        /\ VotesOf(delete_candidates, "t1")
                = VotesOf(last.candidates_before, "t1")

C7_Witness ==
    /\ SyncOnly
    /\ last.returned = FALSE
    /\ VotesOf(delete_candidates, "t1") # {}

(***************************************************************************)
(* Properties of the failure ledger.  In a state with lastcall # NoCall    *)
(* the clock still shows the time of the call: Tick clears `lastcall`.     *)
(***************************************************************************)

TheId == CHOOSE i \in AimIds : TRUE

RetryCall ==
    /\ lastcall # NoCall
    /\ lastcall.op \in {"creation_failed", "deletion_failed"}
    /\ lastcall.error \in {OPERATION_TRANSIENT, UNKNOWN}

CountBefore == get(lastcall.log_before, lastcall.aim_id)[1]
TimeBefore == get(lastcall.log_before, lastcall.aim_id)[2]

\* C8 (as claimed): a transient or unknown failure report on a record (n, t)
\* counts (the record becomes (n+1, now), or is cleared when n+1 reaches
\* max_operation_retry) if t is unset or now - t >= retry_cooldown, and
\* otherwise leaves the ledger, timestamp included, as it was.
C8_CountsOncePerCooldown ==
    RetryCall =>
        IF TimeBefore = NoTime \/ now - TimeBefore[1] >= retry_cooldown
        THEN \/ get(failure_log, lastcall.aim_id) = <<CountBefore + 1, At(now)>>
             \/ /\ CountBefore + 1 >= max_create_retry
                /\ lastcall.aim_id \notin DOMAIN failure_log
        ELSE failure_log = lastcall.log_before

\* C9: every record of the ledger has a count from 1 to
\* max_operation_retry - 1, and the report that brings a count to
\* max_operation_retry marks the object sync_error with the reason given and
\* removes the record in that same call.
C9_CountsStayBelowMax ==
    /\ \A i \in DOMAIN failure_log :
          /\ failure_log[i][1] >= 1
          /\ failure_log[i][1] <= max_create_retry - 1
    /\ (/\ RetryCall
        /\ CooldownOver(TimeBefore, lastcall.time)
        /\ CountBefore + 1 >= max_create_retry)
          => /\ lastcall.aim_id \notin DOMAIN failure_log
             /\ sync_status[lastcall.aim_id] =
                    [sync |-> "sync_error", message |-> lastcall.reason]

C9_Witness ==
    /\ RetryCall
    /\ CountBefore >= 1
    /\ CountBefore = max_create_retry - 1
    /\ lastcall.status_before[lastcall.aim_id].sync # "sync_error"
    /\ lastcall.reason = "timeout"
    /\ lastcall.aim_id \notin DOMAIN failure_log
    /\ sync_status[lastcall.aim_id] =
           [sync |-> "sync_error", message |-> "timeout"]

\* C10 (as claimed): in the scenario the object turns sync_error on the
\* third call, not before, and the fourth call changes neither the ledger nor
\* the sync state.
C10_FourthCallIsNoOp ==
    /\ script \in {1, 2} => sync_status[TheId].sync # "sync_error"
    /\ script = 3 => sync_status[TheId].sync = "sync_error"
    /\ (script = 4 /\ lastcall # NoCall) =>
          /\ failure_log = lastcall.log_before
          /\ sync_status = lastcall.status_before

\* C10 (amended): the third call marks the object sync_error and clears its
\* record; the fourth call leaves the sync state at sync_error and opens a
\* new record with count 1 at the time of the call.
C10_FourthCallStartsAfresh ==
    /\ script \in {1, 2} =>
          /\ sync_status[TheId].sync # "sync_error"
          /\ get(failure_log, TheId) = <<script, At(ScenarioTimes[script])>>
    /\ script = 3 =>
          /\ sync_status[TheId].sync = "sync_error"
          /\ lastcall # NoCall => sync_status[TheId].message = lastcall.reason
          /\ TheId \notin DOMAIN failure_log
    /\ script = 4 =>
          /\ sync_status[TheId].sync = "sync_error"
          /\ get(failure_log, TheId) = <<1, At(ScenarioTimes[4])>>
          /\ lastcall # NoCall =>
                /\ sync_status = lastcall.status_before
                /\ lastcall.log_before = <<>>

C10_Witness == script = 4 /\ now = ScenarioTimes[4] /\ lastcall # NoCall

\* The retry handler marked the object sync_error in the most recent call: a
\* transient or unknown report after which the object has no record.
Escalated == RetryCall /\ lastcall.aim_id \notin DOMAIN failure_log

\* C11 (as claimed): for every max_operation_retry >= 1, two sync_error marks
\* that transient or unknown reports bring to an object are at least
\* retry_cooldown apart, so no cooldown window holds more than one.
C11_OneErrorPerWindow ==
    Escalated =>
        \/ lastcall.marked_before = NoTime
        \/ lastcall.time - lastcall.marked_before[1] >= retry_cooldown

\* Sets of n instants taken from times that lie pairwise at least gap apart.
SpreadOut(times, n, gap) ==
    {S \in SUBSET times :
        /\ Cardinality(S) = n
        /\ \A a, b \in S : a < b => b - a >= gap}

\* C12 (as claimed): when transient or unknown reports bring an object to
\* sync_error, max_operation_retry of the reports made since its record was
\* opened lie pairwise at least retry_cooldown apart, a first report at time 0
\* included.
C12_ErrorOnlyAfterSpreadOutFailures ==
    Escalated =>
        SpreadOut(audit.reported, max_create_retry, retry_cooldown) # {}

FailureReport ==
    /\ lastcall # NoCall
    /\ lastcall.op \in {"creation_failed", "deletion_failed"}

\* C13: creation_failed or deletion_failed with an operation-critical error
\* marks the object sync_error with the reason given and removes its failure
\* record in that same call, whatever its count and however recently its
\* last failure was counted.
C13_SurrenderIsImmediate ==
    (FailureReport /\ lastcall.error = OPERATION_CRITICAL) =>
        /\ lastcall.aim_id \notin DOMAIN failure_log
        /\ sync_status[lastcall.aim_id] =
               [sync |-> "sync_error", message |-> lastcall.reason]

\* A deletion failure judged operation-critical at the very instant a first
\* failure was counted, with two more failures still allowed.
C13_Witness ==
    /\ FailureReport
    /\ lastcall.op = "deletion_failed"
    /\ lastcall.error = OPERATION_CRITICAL
    /\ lastcall.reason = "timeout"
    /\ lastcall.log_before # <<>>
    /\ CountBefore = 1
    /\ max_create_retry = 3
    /\ lastcall.time > 0
    /\ TimeBefore = At(lastcall.time)
    /\ lastcall.status_before[lastcall.aim_id].sync # "sync_error"
    /\ sync_status[lastcall.aim_id].sync = "sync_error"

\* C14: a failure report calls the agent-abort primitive if and only if its
\* error kind is system-critical, and a report of a kind that has no handler
\* changes neither the ledger nor any object's sync state.
C14_AbortOnlyOnSystemCritical ==
    /\ harakiri => FailureReport
    /\ FailureReport =>
          /\ harakiri <=> lastcall.error = SYSTEM_CRITICAL
          /\ lastcall.error \notin {OPERATION_TRANSIENT, UNKNOWN,
                                    OPERATION_CRITICAL, SYSTEM_CRITICAL}
                => /\ failure_log = lastcall.log_before
                   /\ sync_status = lastcall.status_before

\* The agent was aborted by a system-critical report on an object that had
\* one failure counted.
C14_Witness ==
    /\ FailureReport
    /\ lastcall.error = SYSTEM_CRITICAL
    /\ harakiri
    /\ CountBefore = 1

\* C15: creation_succeeded removes the object's failure record and marks the
\* object synced, and when transient or unknown failures next mark the object
\* sync_error, max_operation_retry failures have been counted since that
\* success.
C15_SuccessRestoresBudget ==
    /\ (lastcall # NoCall /\ lastcall.op = "creation_succeeded") =>
          /\ lastcall.aim_id \notin DOMAIN failure_log
          /\ sync_status[lastcall.aim_id].sync = "synced"
    /\ Escalated => audit.since_success >= max_create_retry

\* An object that was synced by a success, with max_operation_retry = 3, is
\* marked sync_error by the third failure counted since.
C15_Witness ==
    /\ Escalated
    /\ max_create_retry = 3
    /\ lastcall.status_before[lastcall.aim_id].sync = "synced"
    /\ CountBefore = 2
    /\ audit.since_success = 3
    /\ sync_status[lastcall.aim_id].sync = "sync_error"

(***************************************************************************)
(* Properties of get_resources.                                            *)
(***************************************************************************)

Fetched == fetch # NoFetch /\ fetch.result # NoResult
Returned == fetch.result.list

\* The identity tuple of a returned resource, extended with the fault code
\* for a fault.
IdentityOf(r) ==
    [i \in 1..Len(r.ids) |-> <<identity_attributes(r.klass)[i], r.ids[i]>>]
        \o (IF r.klass = "AciFault" THEN <<"fault", r.fault_code>> ELSE <<>>)

\* The same for the resource a key names.
IdentityOfKey(key) ==
    [i \in 1..Len(identity_attributes("")) |->
        <<identity_attributes("")[i], dissected_of(key).ids[i]>>]
        \o (IF fault_code_of(key) # None
            THEN <<"fault", fault_code_of(key)>> ELSE <<>>)

\* C17: the identity tuples of the resources get_resources returns, extended
\* with the fault code for the resources of fault keys, are pairwise
\* distinct.
C17_ReturnedIdentitiesDistinct ==
    (Fetched /\ ~fetch.result.raised) =>
        \A i, j \in 1..Len(Returned) :
            IdentityOf(Returned[i]) = IdentityOf(Returned[j]) => i = j

\* A call with the same stored bridge domain named twice and one of its
\* faults named once returns the bridge domain once and the fault once.
C17_Witness ==
    /\ Fetched
    /\ ~fetch.result.raised
    /\ Len(fetch.keys) = 3
    /\ fetch.keys[1] = fetch.keys[3]
    /\ fetch.keys[1] = <<TenantSegment, <<"fvBD", "bd1">>>>
    /\ fetch.keys[2] \in FaultKeys
    /\ Len(Returned) = 2
    /\ Returned[1].klass = "BridgeDomain"
    /\ Returned[2].klass = "AciFault"

\* The type of the key's resource is unknown: to the converter, or to the
\* AIM manager.
UnknownType(key) ==
    \/ dissected_of(key).type \notin DOMAIN resource_map
    \/ resource_map[dissected_of(key).type] \notin ManagedKlasses

\* The resource of the key is in the store.
Stored(key) ==
    /\ ~UnknownType(key)
    /\ LET res == shell(resource_map[dissected_of(key).type], dissected_of(key).ids)
       IN  IF fault_code_of(key) # None
           THEN status_fault(fetch.store, res, fault_code_of(key)) # NoResource
           ELSE manager_get(fetch.store, res) # NoResource

\* C18 (as claimed): get_resources does not fail on a key of unknown type; it
\* returns an identity-only resource for that key and a hydrated resource
\* for every other key whose resource is stored.
C18_UnknownTypeNeverFailsBatch ==
    Fetched =>
        /\ ~fetch.result.raised
        /\ \A n \in 1..Len(fetch.keys) :
              LET key == fetch.keys[n]
              IN  /\ UnknownType(key) =>
                        \E i \in 1..Len(Returned) :
                            /\ ~Returned[i].hydrated
                            /\ IdentityOf(Returned[i]) = IdentityOfKey(key)
                  /\ Stored(key) =>
                        \E i \in 1..Len(Returned) :
                            /\ Returned[i].hydrated
                            /\ IdentityOf(Returned[i]) = IdentityOfKey(key)

(***************************************************************************)
(* Properties of push_resources.                                           *)
(***************************************************************************)

Pushed == push # NoPush /\ push.done
Bucket(method) == IF method = "create" THEN push.create ELSE push.delete
Items == {<<method, index>> : method \in {"create", "delete"}, index \in 1..MaxItems}
ItemsPushed == {it \in Items : it[2] <= Len(Bucket(it[1]))}
CallsFor(it) ==
    {n \in 1..Len(push.calls) :
        push.calls[n].method = it[1] /\ push.calls[n].index = it[2]}

\* The resources an item stands for: itself in the delete bucket, what the
\* converter makes of it in the create bucket.
ResourcesOf(it) ==
    IF it[1] = "delete"
    THEN {Bucket(it[1])[it[2]]}
    ELSE Range(convert(Bucket(it[1])[it[2]]))

\* C16: push_resources does not raise, and when exactly one item of the call
\* raises, every resource of every other item, in the create and in the
\* delete bucket, is still handed to the manager.
C16_OneFailureSparesTheRest ==
    Pushed =>
        /\ ~push.raised
        /\ Len(push.errors) = 1 =>
              \A it \in ItemsPushed \ Range(push.errors) :
                 \A r \in ResourcesOf(it) :
                    \E n \in CallsFor(it) :
                       r = IF r.klass = "AciFault"
                           THEN push.calls[n].fault[1]
                           ELSE push.calls[n].resource

\* Two items in each bucket; the first item of the bucket taken first
\* raises, and the three items after it reach the manager.
C16_Witness ==
    /\ Pushed
    /\ Len(push.create) = 2
    /\ Len(push.delete) = 2
    /\ push.errors = <<<<push.order[1], 1>>>>
    /\ \A it \in ItemsPushed \ {<<push.order[1], 1>>} : CallsFor(it) # {}

\* C19: a fault is routed to set_fault(parent, fault) in the create bucket
\* and to clear_fault(parent, fault) in the delete bucket, never to create or
\* delete; any other resource is created with overwrite in the create bucket
\* and deleted in the delete bucket; the delete bucket's items are applied as
\* given and the create bucket's items as the converter returns them.
C19_RoutedByKindAndBucket ==
    Pushed =>
        /\ \A n \in 1..Len(push.calls) :
              LET call == push.calls[n]
                  item == Bucket(call.method)[call.index]
                  given == IF call.fault # NoFault THEN call.fault[1]
                           ELSE call.resource
              IN  /\ call.method = "delete" => given = item
                  /\ call.method = "create" => given \in Range(convert(item))
                  /\ IF given.klass = "AciFault"
                     THEN /\ call.fault = <<given>>
                          /\ call.fn = IF call.method = "create"
                                       THEN "set_fault" ELSE "clear_fault"
                          /\ call.resource =
                               [klass |-> "BridgeDomain",
                                ids |-> <<given.external_identifier[1][2],
                                          given.external_identifier[2][2]>>]
                     ELSE /\ call.fault = NoFault
                          /\ call.fn = call.method
                          /\ call.overwrite <=> call.method = "create"
        /\ \A it \in ItemsPushed \ Range(push.errors) :
              \A r \in ResourcesOf(it) : CallsFor(it) # {}

\* A call that sets a fault and creates a bridge domain from the create
\* bucket, and clears a fault and deletes a bridge domain from the delete
\* bucket.
C19_Witness ==
    /\ Pushed
    /\ push.errors = <<>>
    /\ {push.calls[n].fn : n \in 1..Len(push.calls)} =
          {"set_fault", "clear_fault", "create", "delete"}
    /\ \E n \in 1..Len(push.calls) :
          /\ push.calls[n].fn = "create"
          /\ push.calls[n].resource.klass = "BridgeDomain"
          /\ Bucket("create")[push.calls[n].index].type = "fvBD"

(***************************************************************************)
(* Properties of a reconcile pass made with options.                       *)
(***************************************************************************)

\* C20: with always_vote_deletion set, the pass adds self to the votes of
\* every tenant of self.state, whatever its tree and the other's view hold,
\* and withdraws none of self's votes; with skip_dummy alone, a tenant of
\* self.state whose tree has no root or a dummy root gets self's vote, even
\* if the other's tree for it is not empty.
C20_OptionsForceTheVote ==
    PassDone =>
        /\ last.always_vote_deletion =>
              /\ \A t \in DOMAIN Mine :
                    last.self \in VotesOf(delete_candidates, t)
              /\ \A t \in Tenants :
                    last.self \in VotesOf(last.candidates_before, t)
                        => last.self \in VotesOf(delete_candidates, t)
        /\ (last.skip_dummy /\ ~last.always_vote_deletion) =>
              \A t \in DOMAIN Mine :
                    root(Mine[t]) \in {None, "dummy"}
                        => last.self \in VotesOf(delete_candidates, t)

\* A pass with skip_dummy alone on a tenant whose tree has a dummy root, while
\* the other universe holds a tree with a real root for that tenant: self had
\* no vote before the pass and has one after it.
C20_Witness ==
    /\ PassDone
    /\ last.skip_dummy
    /\ ~last.always_vote_deletion
    /\ \E t \in DOMAIN Mine :
          /\ root(Mine[t]) = "dummy"
          /\ t \in DOMAIN Theirs
          /\ root(Theirs[t]) = "real"
          /\ last.self \notin VotesOf(last.candidates_before, t)
          /\ last.self \in VotesOf(delete_candidates, t)

(***************************************************************************)
(* Further properties of a reconcile pass.                                 *)
(***************************************************************************)

\* C21: a tenant held by only one of self.state and the other's optimized
\* view contributes no key to create and none to delete.
C21_DeltasOnlyOverCommonTenants ==
    PassDone =>
        \A t \in Tenants \ (DOMAIN Mine \cap DOMAIN Theirs) :
            /\ KeysFor(last.create, t) = {}
            /\ KeysFor(last.delete, t) = {}

\* Self holds a non-empty tree for a tenant the other's view lacks, the
\* other's view holds a non-empty tree for a tenant self lacks, and the pass
\* finds nothing to create and nothing to delete.
C21_Witness ==
    /\ PassDone
    /\ \E t \in DOMAIN Mine \ DOMAIN Theirs : Mine[t] # {}
    /\ \E t \in DOMAIN Theirs \ DOMAIN Mine : Theirs[t] # {}
    /\ last.create = <<>>
    /\ last.delete = <<>>
    /\ last.returned = FALSE

(***************************************************************************)
(* Further properties of get_resources.                                    *)
(***************************************************************************)

\* The returned resource is the one the key names: same class (AciFault
\* with the fault code for a fault key), same identity.
Names(key, r) ==
    /\ r.ids = shell(resource_map[dissected_of(key).type], dissected_of(key).ids).ids
    /\ IF fault_code_of(key) # None
       THEN r.klass = "AciFault" /\ r.fault_code = fault_code_of(key)
       ELSE r.klass = resource_map[dissected_of(key).type]

\* C23 (as claimed): a key is suppressed only when an earlier key of the call
\* resolved to the same resource, so every key whose resource is stored finds
\* that resource in the returned list, also when a resource of another type
\* with the same identity attribute names and values was returned before it.
C23_OnlySameResourceSuppressed ==
    (Fetched /\ ~fetch.result.raised) =>
        \A n \in 1..Len(fetch.keys) :
            Stored(fetch.keys[n]) =>
                \E i \in 1..Len(Returned) : Names(fetch.keys[n], Returned[i])

(***************************************************************************)
(* The ledger under failures that keep being reported.                     *)
(***************************************************************************)

\* The object has a failure record: failures were counted and it is not yet
\* marked sync_error for them.
Pending == failure_log # <<>>

AllFinished == \A u \in Universes : running[u].pc \in {"idle", "done"}

Member(u, t) == t \in DOMAIN delete_candidates /\ u \in delete_candidates[t]

DecidedBy(u, t) ==
    IF t \in DOMAIN running[u].decided THEN running[u].decided[t] ELSE "none"

\* C22: whatever the interleaving of the passes, once every pass has finished
\* a universe is in delete_candidates[t] if its pass voted for t, is not in it
\* if its pass dissented, and is where it was before if its pass did neither.
C22_NoVoteLostOrResurrected ==
    AllFinished =>
        \A u \in Universes : running[u].pc = "done" =>
            \A t \in Tenants :
                /\ DecidedBy(u, t) = "vote" => Member(u, t)
                /\ DecidedBy(u, t) = "dissent" => ~Member(u, t)
                /\ DecidedBy(u, t) = "none" =>
                       (Member(u, t) <=> t \in running[u].before)

\* Two passes that overlapped each voted for the same tenant, one of them
\* having begun between the other's setdefault and add, and both votes are
\* in the set; elsewhere a pass withdrew an earlier vote of its universe.
C22_Witness ==
    /\ AllFinished
    /\ \A u \in Universes : running[u].pc = "done"
    /\ \E u \in Universes : running[u].overlapped
    /\ \E t \in Tenants :
          /\ \A u \in Universes : DecidedBy(u, t) = "vote"
          /\ delete_candidates[t] = Universes

====
